---- MODULE Spec2Model ----
(***************************************************************************)
(* Model of my-reader.py: a multi-pattern occurrence counter               *)
(* (SequenceSearcher over a pyahocorasick automaton) with a result cache   *)
(* keyed by the SHA-256 digest of the input file (PersistentStorage),      *)
(* composed by CommandLineInterface.run.                                   *)
(*                                                                         *)
(* Text (file content, chunks, patterns) is a sequence of symbols of       *)
(* Sigma.  A Python dict is a function; a JSON document is the sequence    *)
(* of its key/value pairs.  Python indices are 0-based and kept so in the  *)
(* values the automaton yields.                                            *)
(***************************************************************************)
EXTENDS Integers, Sequences, FiniteSets, TLC

VARIABLES
    storage_file,   \* results.json on disk: absent, garbage, or a JSON document
    runs,           \* number of runs of CommandLineInterface.run so far
    file,           \* content of the file at sys.argv[1] of the last run (or NotAFile)
    patterns,       \* sys.argv[2:] of the last run / SequenceSearcher.patterns
    outcome,        \* how the last operation ended: "none", "ok", or the exception raised
    displayed,      \* TRUE iff ResultDisplayer.display_results was reached
    results,        \* the table passed to display_results
    lookup,         \* what storage.get_results(file_hash) returned in the last run
    built,          \* TRUE iff a SequenceSearcher (and its automaton) was constructed
    calls,          \* number of search_in_data calls made
    occurrences,    \* SequenceSearcher.occurrences
    stream,         \* concatenation of the data passed to search_in_data so far
    before,         \* storage_file as it was when the last run started
    prev,           \* summary of the run before the last one
    storage,        \* PersistentStorage.storage, the in-memory map
    hasher,         \* the bytes the running hasher has been updated with
    file_hash,      \* the digest last computed
    cursor,         \* automaton state the last search_in_data started from and ended in
    op              \* the operation performed last

vars == <<storage_file, runs, file, patterns, outcome, displayed, results,
          lookup, built, calls, occurrences, stream, before, prev,
          storage, hasher, file_hash, cursor, op>>

(***************************************************************************)
(* Bounds                                                                  *)
(***************************************************************************)
Sigma == {"a", "b"}
MaxPatSize == 5     \* size of a scanner's pattern list: its symbols plus one per pattern
MaxData == 4        \* longest stream fed to a scanner
MaxCalls == 2       \* most search_in_data (or hasher.update) calls on one object
MaxArgs == 2        \* most patterns on the command line
MaxFileLen == 2     \* longest input file
MaxRuns == 2        \* most runs of the program against one store
BufferSize == 1     \* buffer_size of read_file, scaled down from 1024 * 1024

RECURSIVE SeqsUpTo(_, _)
SeqsUpTo(S, n) ==
    IF n = 0 THEN {<<>>}
    ELSE LET shorter == SeqsUpTo(S, n - 1)
         IN  shorter \cup {Append(s, x) : s \in {t \in shorter : Len(t) = n - 1}, x \in S}

Texts(n) == SeqsUpTo(Sigma, n)

\* the pattern lists of size at most n, in every order, repetitions and the
\* empty pattern included
RECURSIVE PatternLists(_)
PatternLists(n) ==
    IF n = 0 THEN {<<>>}
    ELSE {<<>>} \cup UNION {{<<p>> \o rest : rest \in PatternLists(n - 1 - Len(p))} :
                                p \in Texts(n - 1)}

Range(s) == {s[i] : i \in 1..Len(s)}

NotAFile == <<"not a file">>
NoTable == [p \in {} |-> 0]
NoHash == <<"none", <<>>>>
Root == <<>>
NoCursor == [from |-> Root, to |-> Root]
Absent == [present |-> FALSE, table |-> NoTable]
Found(t) == [present |-> TRUE, table |-> t]

(***************************************************************************)
(* FileHandler                                                             *)
(***************************************************************************)
\* os.path.isfile(file_path)
isfile(f) == f # NotAFile

\* read_file: the generator's chunks, f.read(buffer_size) until it is empty
RECURSIVE read_file(_)
read_file(content) ==
    IF content = <<>> THEN <<>>
    ELSE IF Len(content) <= BufferSize THEN <<content>>
    ELSE <<SubSeq(content, 1, BufferSize)>>
         \o read_file(SubSeq(content, BufferSize + 1, Len(content)))

\* data.encode('utf-8'): one byte for each of the (ASCII) symbols
utf8_encode(data) == [i \in 1..Len(data) |-> IF data[i] = "a" THEN 97 ELSE 98]

\* a hasher that is started afresh for every chunk
hasher_update_restart(message, data) == utf8_encode(data)

\* hasher.update(data.encode('utf-8')): the message hashed so far grows by
\* the bytes of data
hasher_update(message, data) == message \o utf8_encode(data)

\* hexdigest of an ideal (collision-free) SHA-256: the digest names the message
hexdigest(message) == <<"sha256", message>>

RECURSIVE hash_chunks(_, _)
hash_chunks(message, chunks) ==
    IF chunks = <<>> THEN message
    ELSE hash_chunks(hasher_update(message, Head(chunks)), Tail(chunks))

compute_hash(content) == hexdigest(hash_chunks(<<>>, read_file(content)))

(***************************************************************************)
(* SequenceSearcher                                                        *)
(***************************************************************************)
\* self.occurrences = {pattern: 0 for pattern in patterns}
init_occurrences(pats) == [p \in Range(pats) |-> 0]

\* _build_automaton: add_word(pattern, idx) for each pattern.  add_word
\* ignores the empty word; adding a word again replaces its value.
automaton_words(pats) == {p \in Range(pats) : p # <<>>}
automaton_value(pats, w) ==
    (CHOOSE i \in 1..Len(pats) :
        /\ pats[i] = w
        /\ \A j \in 1..Len(pats) : pats[j] = w => j <= i) - 1

\* make_automaton turns a non-empty trie into an automaton; an empty one stays empty
is_automaton(pats) == automaton_words(pats) # {}

\* w occurs in data starting at (1-based) position i
MatchesAt(w, data, i) ==
    /\ i + Len(w) - 1 <= Len(data)
    /\ SubSeq(data, i, i + Len(w) - 1) = w

Longest(ws) == CHOOSE w \in ws : \A v \in ws : Len(v) <= Len(w)

\* an iterator that yields a match for every index a word was added under
RECURSIVE iter_long_from_each(_, _, _)
iter_long_from_each(pats, data, i) ==
    IF i > Len(data) THEN <<>>
    ELSE LET here == {w \in automaton_words(pats) : MatchesAt(w, data, i)}
         IN  IF here = {} THEN iter_long_from_each(pats, data, i + 1)
             ELSE LET w == Longest(here)
                      each == SelectSeq([j \in 1..Len(pats) |-> j],
                                        LAMBDA j : pats[j] = w)
                  IN  [k \in 1..Len(each) |-> <<i + Len(w) - 2, each[k] - 1>>]
                      \o iter_long_from_each(pats, data, i + Len(w))

\* an iterator that prefers the word added first to the longest one
RECURSIVE iter_long_from_listed(_, _, _)
iter_long_from_listed(pats, data, i) ==
    IF i > Len(data) THEN <<>>
    ELSE LET here == {w \in automaton_words(pats) : MatchesAt(w, data, i)}
         IN  IF here = {} THEN iter_long_from_listed(pats, data, i + 1)
             ELSE LET w == pats[CHOOSE j \in 1..Len(pats) :
                                   /\ pats[j] \in here
                                   /\ \A k \in 1..(j - 1) : pats[k] \notin here]
                  IN  <<<<i + Len(w) - 2, automaton_value(pats, w)>>>>
                      \o iter_long_from_listed(pats, data, i + Len(w))

\* automaton.iter_long(data): a new iterator, started at the root, that
\* yields (end_index, value) of the longest word at the leftmost position
\* and resumes right after it, so that matches never overlap
RECURSIVE iter_long_from(_, _, _)
iter_long_from(pats, data, i) ==
    IF i > Len(data) THEN <<>>
    ELSE LET here == {w \in automaton_words(pats) : MatchesAt(w, data, i)}
         IN  IF here = {} THEN iter_long_from(pats, data, i + 1)
             ELSE LET w == Longest(here)
                  IN  <<<<i + Len(w) - 2, automaton_value(pats, w)>>>>
                      \o iter_long_from(pats, data, i + Len(w))

iter_long(pats, data) == iter_long_from(pats, data, 1)

\* the loop body of search_in_data, applied to the matches in order
RECURSIVE count_matches(_, _, _)
count_matches(pats, occ, matches) ==
    IF matches = <<>> THEN occ
    ELSE LET insert_order == Head(matches)[2]
             original_value == pats[insert_order + 1]
         IN  count_matches(pats,
                           [occ EXCEPT ![original_value] = @ + 1],
                           Tail(matches))

\* search_in_data on a built automaton
search_in_data(pats, occ, data) == count_matches(pats, occ, iter_long(pats, data))

\* the scanning loop of run: search_in_data on every chunk in order
RECURSIVE search_chunks(_, _, _)
search_chunks(pats, occ, chunks) ==
    IF chunks = <<>> THEN occ
    ELSE search_chunks(pats, search_in_data(pats, occ, Head(chunks)), Tail(chunks))

\* the data the scanning loop has passed to search_in_data
RECURSIVE fed_data(_)
fed_data(chunks) ==
    IF chunks = <<>> THEN <<>> ELSE Head(chunks) \o fed_data(Tail(chunks))

\* text is the beginning of a word of the automaton: a node of its trie
IsTrieNode(pats, text) ==
    \E w \in automaton_words(pats) :
        Len(text) <= Len(w) /\ SubSeq(w, 1, Len(text)) = text

\* the trie node the exhausted iterator of iter_long(data) stands on: the
\* root again after a match, else the node of the unfinished word data ends in
RECURSIVE end_state_from(_, _, _)
end_state_from(pats, data, i) ==
    IF i > Len(data) THEN Root
    ELSE LET here == {w \in automaton_words(pats) : MatchesAt(w, data, i)}
         IN  IF here # {} THEN end_state_from(pats, data, i + Len(Longest(here)))
             ELSE IF IsTrieNode(pats, SubSeq(data, i, Len(data)))
                  THEN SubSeq(data, i, Len(data))
             ELSE end_state_from(pats, data, i + 1)

\* search_in_data makes a new iterator for each call: it starts at the root
search_cursor(pats, data) ==
    [from |-> Root, to |-> end_state_from(pats, data, 1)]

\* get_results that hands out a fresh table of zeros
searcher_get_results_fresh(occ) == [p \in DOMAIN occ |-> 0]

\* SequenceSearcher.get_results
searcher_get_results(occ) == occ

(***************************************************************************)
(* PersistentStorage                                                       *)
(***************************************************************************)
NoFile == [kind |-> "absent", text |-> <<>>]
Garbage == [kind |-> "garbage", text |-> <<>>]
JsonFile(text) == [kind |-> "json", text |-> text]

\* a writer that stops one pair early
RECURSIVE json_pairs_short(_, _)
json_pairs_short(obj, keys) ==
    IF Cardinality(keys) <= 1 THEN <<>>
    ELSE LET k == CHOOSE x \in keys : TRUE
         IN  <<<<k, obj[k]>>>> \o json_pairs_short(obj, keys \ {k})

\* a JSON object is written as its key/value pairs, one after the other
RECURSIVE json_pairs(_, _)
json_pairs(obj, keys) ==
    IF keys = {} THEN <<>>
    ELSE LET k == CHOOSE x \in keys : TRUE
         IN  <<<<k, obj[k]>>>> \o json_pairs(obj, keys \ {k})

\* parsing a JSON object: every key once, a repeated key keeps its last value
json_object(pairs) ==
    [k \in {pairs[i][1] : i \in 1..Len(pairs)} |->
        pairs[CHOOSE i \in 1..Len(pairs) :
                 /\ pairs[i][1] = k
                 /\ \A j \in 1..Len(pairs) : pairs[j][1] = k => j <= i][2]]

\* json.dump that leaves out the patterns whose count is 0
json_dump_nonzero(mem) ==
    json_pairs([h \in DOMAIN mem |->
                   json_pairs(mem[h], {p \in DOMAIN mem[h] : mem[h][p] # 0})],
               DOMAIN mem)

\* json.dump(self.storage, f): digest -> (pattern -> count), both levels objects
json_dump(mem) ==
    json_pairs([h \in DOMAIN mem |-> json_pairs(mem[h], DOMAIN mem[h])],
               DOMAIN mem)

\* json.load(f)
json_load(text) ==
    LET outer == json_object(text)
    IN  [h \in DOMAIN outer |-> json_object(outer[h])]

\* _load_storage without the os.path.exists test: open raises on a missing file
_load_storage_strict(disk) ==
    IF disk.kind = "absent" THEN [raised |-> "FileNotFoundError", storage |-> NoTable]
    ELSE IF disk.kind = "garbage" THEN [raised |-> "ValueError", storage |-> NoTable]
    ELSE [raised |-> "none", storage |-> json_load(disk.text)]

\* _load_storage: {} when the file does not exist; json.load raises
\* JSONDecodeError, a ValueError, on a malformed file
_load_storage(disk) ==
    IF disk.kind = "absent" THEN [raised |-> "none", storage |-> NoTable]
    ELSE IF disk.kind = "garbage" THEN [raised |-> "ValueError", storage |-> NoTable]
    ELSE [raised |-> "none", storage |-> json_load(disk.text)]

\* save_storage that writes a single entry of the map
save_storage_one(mem) ==
    JsonFile(json_dump([h \in (IF DOMAIN mem = {} THEN {}
                                ELSE {CHOOSE x \in DOMAIN mem : TRUE}) |-> mem[h]]))

\* save_storage
save_storage(mem) == JsonFile(json_dump(mem))

\* PersistentStorage.get_results: self.storage.get(file_hash, None)
get_results(mem, digest) ==
    IF digest \in DOMAIN mem THEN Found(mem[digest]) ELSE Absent

\* store_results that starts a new dict instead of updating self.storage
store_results_fresh(mem, digest, table) ==
    [h \in {digest} |-> table]

\* store_results: self.storage[file_hash] = results
store_results(mem, digest, table) ==
    [h \in DOMAIN mem \cup {digest} |->
        IF h = digest THEN table ELSE mem[h]]

(***************************************************************************)
(* CommandLineInterface.run                                                *)
(***************************************************************************)
\* a test that never takes the stored table
truthy_never(res) == FALSE

\* `if results:` - None and the empty dict are both false
truthy(res) == res.present /\ DOMAIN res.table # {}

RunEnd(out, shown, table, res, isBuilt, nCalls, occ, fed, disk, mem) ==
    [outcome |-> out, displayed |-> shown, results |-> table, lookup |-> res,
     built |-> isBuilt, calls |-> nCalls, occurrences |-> occ, stream |-> fed,
     storage_file |-> disk, storage |-> mem]

\* an else branch that stores and saves the initial table before it scans
run_miss_eager(disk, mem, digest, res, f, pats) ==
    LET chunks == read_file(f)
        occ0 == init_occurrences(pats)
    IN  IF chunks # <<>> /\ ~is_automaton(pats)
        THEN RunEnd("AttributeError", FALSE, NoTable, res, TRUE, 1, occ0,
                    Head(chunks), save_storage(store_results(mem, digest, occ0)),
                    store_results(mem, digest, occ0))
        ELSE LET occ == search_chunks(pats, occ0, chunks)
                 table == searcher_get_results(occ)
                 stored == store_results(mem, digest, table)
             IN  RunEnd("ok", TRUE, table, res, TRUE, Len(chunks), occ,
                        fed_data(chunks), save_storage(stored), stored)

\* the else branch of run: scan, store, save
run_miss(disk, mem, digest, res, f, pats) ==
    LET chunks == read_file(f)
        occ0 == init_occurrences(pats)
    IN  IF chunks # <<>> /\ ~is_automaton(pats)
        THEN \* iter_long on an empty automaton raises AttributeError, which
             \* run does not catch
             RunEnd("AttributeError", FALSE, NoTable, res, TRUE, 1, occ0,
                    Head(chunks), disk, mem)
        ELSE LET occ == search_chunks(pats, occ0, chunks)
                 table == searcher_get_results(occ)
                 stored == store_results(mem, digest, table)
             IN  RunEnd("ok", TRUE, table, res, TRUE, Len(chunks), occ,
                        fed_data(chunks), save_storage(stored), stored)

\* the whole of run, from the state of the disk and the command line
run(disk, f, pats) ==
    IF ~isfile(f)
    THEN RunEnd("ValueError", FALSE, NoTable, Absent, FALSE, 0, NoTable, <<>>,
                disk, NoTable)
    ELSE LET digest == compute_hash(f)
             loaded == _load_storage(disk)
         IN  IF loaded.raised # "none"
             THEN RunEnd(loaded.raised, FALSE, NoTable, Absent, FALSE, 0,
                         NoTable, <<>>, disk, NoTable)
             ELSE LET res == get_results(loaded.storage, digest)
                  IN  IF truthy(res)
                      THEN RunEnd("ok", TRUE, res.table, res, FALSE, 0,
                                  NoTable, <<>>, disk, loaded.storage)
                      ELSE run_miss(disk, loaded.storage, digest, res, f, pats)

\* the files tried: runs of one symbol, and a path that is not a file
FileSigma == {"a"}
Files == SeqsUpTo(FileSigma, MaxFileLen) \cup {NotAFile}

\* the command lines tried: at most MaxArgs of these patterns, in this order
ArgOrder == <<<<>>, <<"a">>, <<"b">>>>

RECURSIVE ArgsFrom(_, _)
ArgsFrom(i, chosen) ==
    IF i > Len(ArgOrder) THEN <<>>
    ELSE (IF i \in chosen THEN <<ArgOrder[i]>> ELSE <<>>) \o ArgsFrom(i + 1, chosen)

ArgLists ==
    {ArgsFrom(1, chosen) :
        chosen \in {c \in SUBSET (1..Len(ArgOrder)) : Cardinality(c) <= MaxArgs}}

NoRun == [file |-> <<>>, patterns |-> <<>>, outcome |-> "none",
          displayed |-> FALSE, results |-> NoTable, before |-> NoFile]

Init ==
    /\ storage_file \in {NoFile, Garbage}
    /\ runs = 0
    /\ file = <<>>
    /\ patterns = <<>>
    /\ outcome = "none"
    /\ displayed = FALSE
    /\ results = NoTable
    /\ lookup = Absent
    /\ built = FALSE
    /\ calls = 0
    /\ occurrences = NoTable
    /\ stream = <<>>
    /\ before = storage_file
    /\ prev = NoRun
    /\ storage = NoTable
    /\ hasher = <<>>
    /\ file_hash = NoHash
    /\ cursor = NoCursor
    /\ op = "none"

Run ==
    /\ runs < MaxRuns
    /\ \E f \in Files, pats \in ArgLists :
        LET r == run(storage_file, f, pats)
        IN  /\ file' = f
            /\ patterns' = pats
            /\ outcome' = r.outcome
            /\ displayed' = r.displayed
            /\ results' = r.results
            /\ lookup' = r.lookup
            /\ built' = r.built
            /\ calls' = r.calls
            /\ occurrences' = r.occurrences
            /\ stream' = r.stream
            /\ storage_file' = r.storage_file
            /\ storage' = r.storage
            /\ hasher' = IF isfile(f) THEN hash_chunks(<<>>, read_file(f)) ELSE <<>>
            /\ file_hash' = IF isfile(f) THEN compute_hash(f) ELSE NoHash
    /\ runs' = runs + 1
    /\ before' = storage_file
    /\ prev' = [file |-> file, patterns |-> patterns, outcome |-> outcome,
                displayed |-> displayed, results |-> results, before |-> before]
    /\ cursor' = NoCursor
    /\ op' = "run"

Next == Run

Spec == Init /\ [][Next]_vars

(***************************************************************************)
(* A SequenceSearcher on its own, fed data in arbitrary pieces             *)
(***************************************************************************)
InitScan ==
    /\ patterns \in PatternLists(MaxPatSize)
    /\ occurrences = init_occurrences(patterns)
    /\ built = TRUE
    /\ stream = <<>>
    /\ calls = 0
    /\ outcome = "none"
    /\ results = NoTable
    /\ displayed = FALSE
    /\ storage_file = NoFile
    /\ runs = 0
    /\ file = <<>>
    /\ lookup = Absent
    /\ before = NoFile
    /\ prev = NoRun
    /\ storage = NoTable
    /\ hasher = <<>>
    /\ file_hash = NoHash
    /\ cursor = NoCursor
    /\ op = "none"

Search ==
    /\ calls < MaxCalls
    /\ outcome # "AttributeError"
    /\ \E data \in Texts(MaxData) :
        /\ Len(stream) + Len(data) <= MaxData
        /\ stream' = stream \o data
        /\ IF is_automaton(patterns)
           THEN /\ occurrences' = search_in_data(patterns, occurrences, data)
                /\ cursor' = search_cursor(patterns, data)
                /\ outcome' = "ok"
           ELSE /\ occurrences' = occurrences
                /\ cursor' = cursor
                /\ outcome' = "AttributeError"
    /\ calls' = calls + 1
    /\ op' = "search_in_data"
    /\ UNCHANGED <<storage_file, runs, file, patterns, displayed, results,
                   lookup, built, before, prev, storage, hasher, file_hash>>

GetResults ==
    /\ results' = searcher_get_results(occurrences)
    /\ displayed' = TRUE
    /\ op' = "get_results"
    /\ UNCHANGED <<storage_file, runs, file, patterns, outcome, lookup, built,
                   calls, occurrences, stream, before, prev, storage, hasher,
                   file_hash, cursor>>

NextScan == Search \/ GetResults

SpecScan == InitScan /\ [][NextScan]_vars

(***************************************************************************)
(* A PersistentStorage on its own: construct, store, save, look up         *)
(***************************************************************************)
StoreKeys == {compute_hash(<<>>), compute_hash(<<"a">>)}
StoreTables == {NoTable,
                (<<"a">> :> 1) @@ (<<"b">> :> 0),
                (<<"a">> :> 2)}

InitStore ==
    /\ storage_file = NoFile
    /\ storage = _load_storage(storage_file).storage
    /\ op = "load"
    /\ outcome = "ok"
    /\ lookup = Absent
    /\ runs = 0
    /\ file = <<>>
    /\ patterns = <<>>
    /\ displayed = FALSE
    /\ results = NoTable
    /\ built = FALSE
    /\ calls = 0
    /\ occurrences = NoTable
    /\ stream = <<>>
    /\ before = NoFile
    /\ prev = NoRun
    /\ hasher = <<>>
    /\ file_hash = NoHash
    /\ cursor = NoCursor

StoreFrame == UNCHANGED <<runs, file, patterns, outcome, displayed, results,
                          built, calls, occurrences, stream, before, prev,
                          hasher, file_hash, cursor>>

\* PersistentStorage(): a new object on the same file
LoadStorage ==
    /\ storage' = _load_storage(storage_file).storage
    /\ op' = "load"
    /\ UNCHANGED <<storage_file, lookup>>
    /\ StoreFrame

StoreResults ==
    /\ \E digest \in StoreKeys, table \in StoreTables :
          storage' = store_results(storage, digest, table)
    /\ op' = "store_results"
    /\ UNCHANGED <<storage_file, lookup>>
    /\ StoreFrame

SaveStorage ==
    /\ storage_file' = save_storage(storage)
    /\ op' = "save_storage"
    /\ UNCHANGED <<storage, lookup>>
    /\ StoreFrame

Lookup ==
    /\ \E digest \in StoreKeys : lookup' = get_results(storage, digest)
    /\ op' = "lookup"
    /\ UNCHANGED <<storage_file, storage>>
    /\ StoreFrame

NextStore == LoadStorage \/ StoreResults \/ SaveStorage \/ Lookup

SpecStore == InitStore /\ [][NextStore]_vars

(***************************************************************************)
(* A running hasher on its own, updated with data in arbitrary pieces      *)
(***************************************************************************)
InitHash ==
    /\ hasher = <<>>
    /\ stream = <<>>
    /\ calls = 0
    /\ file_hash = NoHash
    /\ op = "none"
    /\ storage_file = NoFile
    /\ storage = NoTable
    /\ outcome = "none"
    /\ lookup = Absent
    /\ runs = 0
    /\ file = <<>>
    /\ patterns = <<>>
    /\ displayed = FALSE
    /\ results = NoTable
    /\ built = FALSE
    /\ occurrences = NoTable
    /\ before = NoFile
    /\ prev = NoRun
    /\ cursor = NoCursor

HashFrame == UNCHANGED <<storage_file, storage, outcome, lookup, runs, file,
                         patterns, displayed, results, built, occurrences,
                         before, prev, cursor>>

\* hasher.update(data.encode('utf-8')) for the next piece of the input
Update ==
    /\ calls < MaxCalls
    /\ \E data \in Texts(MaxData) :
        /\ Len(stream) + Len(data) <= MaxData
        /\ hasher' = hasher_update(hasher, data)
        /\ stream' = stream \o data
    /\ calls' = calls + 1
    /\ op' = "update"
    /\ UNCHANGED file_hash
    /\ HashFrame

\* hasher.hexdigest()
Hexdigest ==
    /\ file_hash' = hexdigest(hasher)
    /\ op' = "hexdigest"
    /\ UNCHANGED <<hasher, stream, calls>>
    /\ HashFrame

NextHash == Update \/ Hexdigest

SpecHash == InitHash /\ [][NextHash]_vars

(***************************************************************************)
(* Properties of the scanner (SpecScan)                                    *)
(***************************************************************************)
ValidPatterns(pats) == pats # <<>> /\ <<>> \notin Range(pats)

\* the positions of data at which an occurrence of p ends
EndPositions(p, data) ==
    {i \in 1..Len(data) : i >= Len(p) /\ SubSeq(data, i - Len(p) + 1, i) = p}

\* p occurs somewhere inside q
Inside(p, q) == \E i \in 1..Len(q) : MatchesAt(p, q, i)

\* C1: feeding a stream to a fresh scanner in consecutive chunks gives the
\* same occurrence table as one search_in_data call on the whole stream.
C1_ChunkIndependence ==
    (calls >= 1 /\ outcome = "ok") =>
        occurrences = search_in_data(patterns, init_occurrences(patterns), stream)

\* C2: after scanning X the count of every pattern p equals the number of
\* positions of X at which an occurrence of p ends, overlapping ones included.
C2_EveryOccurrenceCounted ==
    (calls = 1 /\ outcome = "ok" /\ ValidPatterns(patterns)) =>
        \A p \in Range(patterns) :
            occurrences[p] = Cardinality(EndPositions(p, stream))

\* C3: when a searched pattern p lies inside (or is a prefix or suffix of) a
\* searched pattern q that occurs in the input, both p and q are counted.
C3_OverlapBetweenPatterns ==
    (calls = 1 /\ outcome = "ok" /\ ValidPatterns(patterns)) =>
        \A p, q \in Range(patterns) :
            (p # q /\ Inside(p, q) /\ EndPositions(q, stream) # {}) =>
                (occurrences[p] >= 1 /\ occurrences[q] >= 1)

(***************************************************************************)
(* Properties of the runs (Spec)                                           *)
(***************************************************************************)
Ran == runs >= 1
OldStorage == json_load(before.text)
NewStorage == json_load(storage_file.text)
Missed == Ran /\ isfile(file) /\ before.kind = "json"
          /\ compute_hash(file) \notin DOMAIN OldStorage
FullScan == built /\ calls = Len(read_file(file)) /\ stream = file

\* every run so far was given a valid pattern list
AllValid == (Ran => ValidPatterns(patterns))
            /\ (prev.outcome # "none" => ValidPatterns(prev.patterns))

\* C4: the table a run returns equals the table a run on the same patterns
\* and input returns when started with an empty cache (stated for runs with
\* valid pattern lists).
C4_CacheNeverChangesAnswer ==
    (Ran /\ displayed /\ AllValid) =>
        LET cold == run(NoFile, file, patterns)
        IN  cold.displayed /\ results = cold.results

\* C5: a run on (P, X) with an empty cache followed by a run on the same
\* (P, X) with the cache the first one wrote returns the same table.
C5_ColdThenWarm ==
    (runs >= 2 /\ prev.before = NoFile /\ prev.outcome = "ok"
        /\ prev.file = file /\ prev.patterns = patterns) =>
        (outcome = "ok" /\ displayed /\ results = prev.results)

C5_Witness ==
    /\ runs = 2 /\ prev.before = NoFile /\ prev.outcome = "ok"
    /\ prev.file = file /\ prev.patterns = patterns
    /\ truthy(lookup) /\ ~built
    /\ \E p, q \in DOMAIN results : results[p] > 0 /\ results[q] = 0

\* C6: the table of every successful run has exactly the patterns supplied
\* to that run as its keys (stated for runs with valid pattern lists).
C6_ResultCoverage ==
    (Ran /\ displayed /\ AllValid) => DOMAIN results = Range(patterns)

\* C7: whenever the lookup returns a stored table, the run builds no
\* automaton, calls search_in_data not once and returns the stored table.
C7_HitDoesNoScanning ==
    (Ran /\ lookup.present) =>
        (~built /\ calls = 0 /\ displayed /\ results = lookup.table)

\* C8: a run that finds the store without an entry for its digest scans the
\* whole input and leaves the store equal to the previous store plus the new
\* entry; no run changes an entry under another digest.
C8_MissPreservesOthers ==
    /\ (Missed /\ ValidPatterns(patterns)) => outcome = "ok"
    /\ (Missed /\ outcome = "ok") =>
          /\ FullScan
          /\ storage_file.kind = "json"
          /\ DOMAIN NewStorage = DOMAIN OldStorage \cup {compute_hash(file)}
          /\ NewStorage[compute_hash(file)] = results
    /\ (Ran /\ before.kind = "json") =>
          /\ storage_file.kind = "json"
          /\ \A h \in DOMAIN OldStorage :
                (isfile(file) => h # compute_hash(file)) =>
                    (h \in DOMAIN NewStorage /\ NewStorage[h] = OldStorage[h])

C8_Witness ==
    /\ Missed /\ outcome = "ok" /\ FullScan /\ calls = 2
    /\ DOMAIN OldStorage # {}
    /\ \E p \in DOMAIN results : results[p] > 0

\* C9: a run whose pattern list is empty or contains an empty pattern ends
\* in an error, with no automaton built, no chunk scanned, no table returned.
C9_InvalidPatternRejected ==
    (Ran /\ ~ValidPatterns(patterns)) =>
        (outcome # "ok" /\ ~built /\ calls = 0 /\ ~displayed)

\* C10: a run that finds the store malformed treats it as empty, scans the
\* whole input and returns the complete table.
C10_CorruptCacheNotFatal ==
    (Ran /\ before.kind = "garbage" /\ isfile(file) /\ ValidPatterns(patterns)) =>
        (outcome = "ok" /\ displayed /\ FullScan
            /\ DOMAIN results = Range(patterns))

\* C11: a run that ends in an error displays no table and leaves the
\* persisted store exactly as it was before the run.
C11_NoPartialResults ==
    (Ran /\ outcome # "ok") =>
        (~displayed /\ results = NoTable /\ storage_file = before)

C11_Witness ==
    /\ Ran /\ before.kind = "json" /\ DOMAIN OldStorage # {}
    /\ \/ outcome = "ValueError" /\ ~isfile(file)
       \/ outcome = "AttributeError" /\ calls = 1

\* C14: with no store file the cache is constructed empty, the lookup
\* returns absent and the run goes on to the scan without a cache error; a
\* run with valid patterns scans the whole input and succeeds.
C14_AbsentStoreIsEmptyCache ==
    (Ran /\ before = NoFile /\ isfile(file)) =>
        /\ lookup = Absent
        /\ built
        /\ outcome \in {"ok", "AttributeError"}
        /\ ValidPatterns(patterns) =>
              (outcome = "ok" /\ displayed /\ FullScan
                  /\ DOMAIN storage = {file_hash})

C14_Witness ==
    /\ Ran /\ before = NoFile /\ isfile(file) /\ ValidPatterns(patterns)
    /\ outcome = "ok" /\ calls = 2
    /\ \E p \in DOMAIN results : results[p] > 0

\* C20: once the persisted store maps a digest to a non-empty table no run
\* changes or removes that entry, and no run removes a digest from the store.
C20_EntriesWriteOnce ==
    (Ran /\ before.kind = "json") =>
        /\ storage_file.kind = "json"
        /\ \A h \in DOMAIN OldStorage :
              /\ h \in DOMAIN NewStorage
              /\ DOMAIN OldStorage[h] # {} => NewStorage[h] = OldStorage[h]

C20_Witness ==
    /\ runs = 2 /\ outcome = "ok" /\ prev.outcome = "ok"
    /\ prev.file = file /\ prev.patterns # patterns
    /\ truthy(lookup) /\ ValidPatterns(patterns)
    /\ NewStorage[file_hash] = prev.results

(***************************************************************************)
(* Properties of the store (SpecStore)                                     *)
(***************************************************************************)
\* C12: saving a non-empty in-memory map and constructing a new
\* PersistentStorage on the file gives, for every key written, a table equal
\* to the one stored under it.
C12_CacheRoundTrip ==
    (DOMAIN storage # {}) =>
        LET again == _load_storage(save_storage(storage))
        IN  /\ again.raised = "none"
            /\ \A k \in DOMAIN storage :
                  get_results(again.storage, k) = Found(storage[k])

C12_Witness ==
    /\ op = "load" /\ storage_file.kind = "json"
    /\ storage_file = save_storage(storage)
    /\ Cardinality(DOMAIN storage) = 2
    /\ \A k \in DOMAIN storage : DOMAIN storage[k] # {}

\* C13: store_results changes the in-memory map only; the durable store
\* changes only at save_storage, and right after it holds exactly the
\* in-memory map.
C13_StoreFlushSeparation ==
    [][/\ (op' = "store_results" => storage_file' = storage_file)
       /\ (storage_file' # storage_file => op' = "save_storage")
       /\ (op' = "save_storage" =>
              /\ storage' = storage
              /\ storage_file'.kind = "json"
              /\ json_load(storage_file'.text) = storage)]_vars

C13_Witness ==
    /\ op = "store_results" /\ storage_file.kind = "json"
    /\ DOMAIN json_load(storage_file.text) # {}
    /\ \E k \in DOMAIN json_load(storage_file.text) :
          storage[k] # json_load(storage_file.text)[k]

NewData == SubSeq(stream', Len(stream) + 1, Len(stream'))
Searched == calls' = calls + 1 /\ outcome' = "ok"

\* C16: get_results returns the occurrence table as it stands, every time,
\* without scanning and without changing a count.
C16_GetResultsIdempotent ==
    [][op' = "get_results" =>
          /\ results' = occurrences
          /\ occurrences' = occurrences
          /\ calls' = calls /\ stream' = stream
          /\ op = "get_results" => results' = results]_vars

C16_Witness ==
    /\ op = "get_results" /\ calls >= 2
    /\ \E p \in DOMAIN results : results[p] >= 2

\* C17: every search_in_data call after the first starts from the automaton
\* state the call before it ended in.
C17_CursorCarried ==
    [][(Searched /\ calls >= 1 /\ NewData # <<>>) => cursor'.from = cursor.to]_vars

\* the list without its repetitions
RECURSIVE Dedup(_)
Dedup(pats) ==
    IF pats = <<>> THEN <<>>
    ELSE LET front == Dedup(SubSeq(pats, 1, Len(pats) - 1))
             last == pats[Len(pats)]
         IN  IF last \in Range(front) THEN front ELSE Append(front, last)

\* C18: a list with repeated patterns gives the table of the list without
\* the repetitions: at the start and after every search_in_data call.
C18_DuplicatesCollapse ==
    [][Searched =>
          /\ calls = 0 => occurrences = init_occurrences(Dedup(patterns))
          /\ occurrences' = search_in_data(Dedup(patterns), occurrences, NewData)]_vars

C18_Witness ==
    /\ outcome = "ok" /\ calls >= 2
    /\ \E i, j \in 1..Len(patterns) :
          i # j /\ patterns[i] = patterns[j] /\ occurrences[patterns[i]] >= 2

\* the lists with the same patterns in another order
Reorderings(pats) ==
    {[i \in 1..Len(pats) |-> pats[f[i]]] : f \in Permutations(1..Len(pats))}

\* C19: every reordering of the pattern list gives each pattern the same
\* count: at the start and after every search_in_data call.
C19_OrderIrrelevant ==
    [][Searched =>
          \A q \in Reorderings(patterns) :
              /\ calls = 0 => occurrences = init_occurrences(q)
              /\ occurrences' = search_in_data(q, occurrences, NewData)]_vars

C19_Witness ==
    /\ outcome = "ok" /\ calls >= 1
    /\ \E p, q \in Range(patterns) :
          /\ p # q /\ p # <<>> /\ Inside(p, q)
          /\ EndPositions(q, stream) # {}
          /\ occurrences[q] >= 1

====
